---------------------------- MODULE Spec2Model ----------------------------
(***************************************************************************)
(* A model of src/proj2/streamer.py: two paired Streamer objects "A" and   *)
(* "B" on top of a lossy datagram service (LossyUDP).                      *)
(*                                                                         *)
(* Wire bytes are modelled as sequences of cells.  The header produced by  *)
(* struct.pack("LLB", seq_n, recv_buf_size, flags) is three cells (one per *)
(* packed field), the SHA-256 digest is one cell, the payload is one cell  *)
(* per byte.  Sizes are therefore counted in cells, not in bytes.          *)
(*                                                                         *)
(* Time is modelled by the field "elapsed" of an InflightPacket, which     *)
(* holds time.time() - start_time in units of 0.25 s, saturated just above *)
(* the packet's timeout (None is NoTime).                                  *)
(***************************************************************************)
EXTENDS Integers, Sequences, FiniteSets, TLC

\* ------------------------------------------------------------------ bounds
\* Largest number of sequence numbers a stream may consume (send and close).
MaxSeq == 2
\* Largest number of datagrams in flight towards one endpoint; a datagram
\* sent to a full channel is lost.
NetCap == 2
\* The number of packets of the burst that the application sends to fill
\* the window.
MaxBurst == 27
\* Largest number of bytes of one send() of the segmentation scenario, and
\* the number of sequence numbers its sends may consume.
MaxSendLen == 9
MaxSendSeq == 4
\* Largest seq_n, recv_buf_size and payload length of the packets the codec
\* is checked on.
MaxCodec == 2
\* The vertices of the graphs are 1 .. MaxNode, the weights of their edges
\* 1 .. MaxWeight, and add_edge is called while there are fewer than
\* MaxEdges edges.
MaxNode == 3
MaxWeight == 3
MaxEdges == 3
\* Largest number of packets waiting in a reassembly buffer; the channel
\* holds a datagram back while the buffer of its receiver is full.
MaxRecvQ == 2

\* ------------------------------------------------------------- constants
\* Sizes in cells.  PACKET_SIZE is 1472 bytes in the program; it is scaled
\* down here so that a send() of five bytes spans two packets.
HEADER_SIZE == 3
HASH_SIZE == 1
PACKET_SIZE == 8
PAYLOAD_SIZE == PACKET_SIZE - HEADER_SIZE - HASH_SIZE
\* self.ACK_TIMEOUT = 0.25 s and close()'s timeout_s=2, in units of 0.25 s.
ACK_TIMEOUT == 1
FIN_TIMEOUT == 8
\* the in-flight cap of the sender's inner loop
WINDOW == 25
\* start_time=None
NoTime == -1

Streams == {"A", "B"}
Peer(s) == IF s = "A" THEN "B" ELSE "A"

\* ------------------------------------------------------------------ codec
Min(a, b) == IF a < b THEN a ELSE b

\* Python's buf[a:b] (0-based, end clamped to the length).
Slice(buf, a, b) == SubSeq(buf, a + 1, Min(b, Len(buf)))

RECURSIVE WeightedSum(_, _)
WeightedSum(msg, i) ==
    IF i > Len(msg) THEN 0 ELSE i * msg[i] + WeightedSum(msg, i + 1)

\* The digest of msg, one cell.  Stands for SHA-256: a position-weighted
\* sum modulo a prime, which changes whenever one bit of one cell changes.
calcHash(msg) == << WeightedSum(msg, 1) % 251 >>

PacketCorruptError == [error |-> "PacketCorruptError"]

Packet(seq_n, recv_buf_size, ack, fin, payload) ==
    [seq_n |-> seq_n, recv_buf_size |-> recv_buf_size,
     ack |-> ack, fin |-> fin, payload |-> payload]

BoolInt(b) == IF b THEN 1 ELSE 0

\* Packet.to_bytes with the shifts of the two flags exchanged.
to_bytes_swapped(p) ==
    LET _flags == BoolInt(p.ack) * 128 + BoolInt(p.fin) * 8
        header_bytes == << p.seq_n, p.recv_buf_size, _flags >>
        _hash == calcHash(header_bytes \o p.payload)
    IN  header_bytes \o _hash \o p.payload

\* Packet.to_bytes
to_bytes(p) ==
    LET _flags == BoolInt(p.ack) * 8 + BoolInt(p.fin) * 128
        header_bytes == << p.seq_n, p.recv_buf_size, _flags >>
        _hash == calcHash(header_bytes \o p.payload)
    IN  header_bytes \o _hash \o p.payload

\* Packet.from_bytes with ack read as (_flags >> 2) & 1.
from_bytes_shift(buf) ==
    LET header_bytes == Slice(buf, 0, HEADER_SIZE)
        _hash == Slice(buf, HEADER_SIZE, HEADER_SIZE + HASH_SIZE)
        payload == Slice(buf, HEADER_SIZE + HASH_SIZE, Len(buf))
        new_hash == calcHash(header_bytes \o payload)
        _flags == header_bytes[3]
    IN  IF new_hash # _hash
        THEN PacketCorruptError
        ELSE Packet(header_bytes[1], header_bytes[2],
                    (_flags \div 4) % 2 = 1, (_flags \div 128) % 2 = 1, payload)

\* Packet.from_bytes without the comparison of the digests.
from_bytes_unchecked(buf) ==
    LET header_bytes == Slice(buf, 0, HEADER_SIZE)
        payload == Slice(buf, HEADER_SIZE + HASH_SIZE, Len(buf))
        _flags == header_bytes[3]
    IN  Packet(header_bytes[1], header_bytes[2],
               (_flags \div 8) % 2 = 1, (_flags \div 128) % 2 = 1, payload)

\* Packet.from_bytes
from_bytes(buf) ==
    LET header_bytes == Slice(buf, 0, HEADER_SIZE)
        _hash == Slice(buf, HEADER_SIZE, HEADER_SIZE + HASH_SIZE)
        payload == Slice(buf, HEADER_SIZE + HASH_SIZE, Len(buf))
        new_hash == calcHash(header_bytes \o payload)
        _flags == header_bytes[3]
    IN  IF new_hash # _hash
        THEN PacketCorruptError
        ELSE Packet(header_bytes[1], header_bytes[2],
                    (_flags \div 8) % 2 = 1, (_flags \div 128) % 2 = 1, payload)

\* ------------------------------------------------------- priority queues
InflightPacket(seq_n, start_time, timeout_s, packet) ==
    [seq_n |-> seq_n, elapsed |-> start_time, timeout_s |-> timeout_s,
     packet |-> packet]

\* InflightPacket.__lt__
InflightLess(x, y) == x.seq_n < y.seq_n

RECURSIVE SeqLess(_, _)
SeqLess(a, b) ==
    IF b = <<>> THEN FALSE
    ELSE IF a = <<>> THEN TRUE
    ELSE IF a[1] # b[1] THEN a[1] < b[1]
    ELSE SeqLess(Tail(a), Tail(b))

\* The tuple order of the NamedTuple Packet.
PacketLess(x, y) ==
    SeqLess(<< x.seq_n, x.recv_buf_size, BoolInt(x.ack), BoolInt(x.fin) >> \o x.payload,
            << y.seq_n, y.recv_buf_size, BoolInt(y.ack), BoolInt(y.fin) >> \o y.payload)

\* queue.PriorityQueue holding InflightPackets, kept as a sorted sequence;
\* get() takes the head.
RECURSIVE SendQPut(_, _)
SendQPut(q, x) ==
    IF q = <<>> THEN << x >>
    ELSE IF InflightLess(x, q[1]) THEN << x >> \o q
    ELSE << q[1] >> \o SendQPut(Tail(q), x)

RECURSIVE SendQPutAll(_, _)
SendQPutAll(q, xs) ==
    IF xs = <<>> THEN q ELSE SendQPutAll(SendQPut(q, xs[1]), Tail(xs))

\* queue.PriorityQueue holding Packets.
RECURSIVE RecvQPut(_, _)
RecvQPut(q, x) ==
    IF q = <<>> THEN << x >>
    ELSE IF PacketLess(x, q[1]) THEN << x >> \o q
    ELSE << q[1] >> \o RecvQPut(Tail(q), x)

\* ------------------------------------------------------------ adj_graph
\* None, as the index of a neighbor that is not there and as the
\* predecessor of a vertex that has none; math.inf as a number above the
\* weight of every path of the graphs.
None == -1
Inf == 99

Nodes == 1..MaxNode
Weights == 1..MaxWeight

Neighbor(id, weight) == [id |-> id, weight |-> weight]

\* Neighbor.__eq__
NeighborEq(a, b) == a.id = b.id

Edge(weight, node1, node2) == [weight |-> weight, node1 |-> node1, node2 |-> node2]

ValueError == [raised |-> "ValueError"]

\* d[k] = x on a dict.
DictPut(d, k, x) == [v \in DOMAIN d \cup {k} |-> IF v = k THEN x ELSE d[v]]

\* Reading self.adj[n] of the defaultdict(list) creates the key n.
Touch(g, n) == IF n \in DOMAIN g THEN g ELSE DictPut(g, n, <<>>)

\* list.index(x): the index, from 0, of the first element equal to x.
RECURSIVE ListIndex(_, _)
ListIndex(q, x) ==
    IF q = <<>> THEN None
    ELSE IF NeighborEq(q[1], x) THEN 0
    ELSE LET i == ListIndex(Tail(q), x) IN IF i = None THEN None ELSE i + 1

\* del q[i]; `del q[None]` raises TypeError and leaves q as it is.
ListDel(q, i) ==
    IF i = None THEN q ELSE Slice(q, 0, i) \o Slice(q, i + 1, Len(q))

\* Graph._find_neighbor on a graph in which root has been read.
_find_neighbor(g, root, neighbor) ==
    ListIndex(Touch(g, root)[root], Neighbor(neighbor, -1))

\* Graph.get_vertices
get_vertices(g) == DOMAIN g

\* Graph.get_neighbors
get_neighbors(g, node) == Touch(g, node)[node]

\* Graph.has_edge
has_edge(g, n1, n2) == _find_neighbor(g, n1, n2) # None

\* Graph.get_edge
get_edge(g, n1, n2) ==
    LET i2 == _find_neighbor(g, n1, n2)
    IN  IF i2 # None THEN Edge(Touch(g, n1)[n1][i2 + 1].weight, n1, n2)
        ELSE ValueError

\* Graph.add_edge: the graph after the call.
add_edge(g, n1, n2, weight) ==
    LET g1 == Touch(g, n1)
        g2 == [g1 EXCEPT ![n1] = Append(@, Neighbor(n2, weight))]
        g3 == Touch(g2, n2)
    IN  [g3 EXCEPT ![n2] = Append(@, Neighbor(n1, weight))]

\* Graph.remove_edge: the graph after the call.
remove_edge(g, n1, n2) ==
    LET g1 == Touch(g, n1)
        i2 == _find_neighbor(g1, n1, n2)
    IN  IF i2 # None
        THEN LET g2 == Touch(g1, n2)
                 i1 == _find_neighbor(g2, n2, n1)
                 g3 == [g2 EXCEPT ![n1] = ListDel(@, i2)]
             IN  [g3 EXCEPT ![n2] = ListDel(@, i1)]
        ELSE g1

\* The tuple order of the entries (distance, vertex) of the heap.
TupleLess(a, b) == a[1] < b[1] \/ (a[1] = b[1] /\ a[2] < b[2])

\* heapq.heappush on a heap kept as a sorted sequence; heappop takes the head.
RECURSIVE heappush(_, _)
heappush(todo, x) ==
    IF todo = <<>> THEN << x >>
    ELSE IF TupleLess(x, todo[1]) THEN << x >> \o todo
    ELSE << todo[1] >> \o heappush(Tail(todo), x)

\* The state of the while loop of dijkstra.
DijkstraState(pred, dist, done, todo) ==
    [pred |-> pred, dist |-> dist, done |-> done, todo |-> todo]

\* if dist[v] + edge.weight <= dist[u], with dist[v] left out.
RelaxCond_noadd(dist, v, edge) == edge.weight <= dist[edge.id]

\* if dist[v] + edge.weight <= dist[u]
RelaxCond(dist, v, edge) == dist[v] + edge.weight <= dist[edge.id]

\* for edge in g.get_neighbors(v): ...
RECURSIVE Relax(_, _, _)
Relax(st, v, edges) ==
    IF edges = <<>> THEN st
    ELSE LET edge == edges[1]
             u == edge.id
         IN  IF RelaxCond(st.dist, v, edge)
             THEN Relax(DijkstraState(DictPut(st.pred, u, v),
                                      DictPut(st.dist, u, st.dist[v] + edge.weight),
                                      st.done,
                                      heappush(st.todo, << st.dist[v] + edge.weight, u >>)),
                        v, Tail(edges))
             ELSE Relax(st, v, Tail(edges))

\* while todo: ...
RECURSIVE DijkstraLoop(_, _)
DijkstraLoop(g, st) ==
    IF st.todo = <<>> THEN st
    ELSE LET v == st.todo[1][2]
             popped == DijkstraState(st.pred, st.dist, st.done, Tail(st.todo))
         IN  IF v \notin st.done
             THEN DijkstraLoop(g, Relax(DijkstraState(popped.pred, popped.dist,
                                                     popped.done \cup {v}, popped.todo),
                                        v, get_neighbors(g, v)))
             ELSE DijkstraLoop(g, popped)

\* dijkstra(g, start): the pair (pred, dist) it returns.
dijkstra(g, start) ==
    LET vertices == get_vertices(g)
        dist == DictPut([v \in vertices |-> Inf], start, 0)
        pred == [v \in vertices |-> None]
        st == DijkstraLoop(g, DijkstraState(pred, dist, {}, << << 0, start >> >>))
    IN  [start |-> start, pred |-> st.pred, dist |-> st.dist]

\* No call of dijkstra has returned on the graph as it is.
NoRoute == [start |-> None, pred |-> <<>>, dist |-> <<>>]

\* ------------------------------------------------------------------ state
VARIABLES
    send_next_seq_n,    \* self.send_next_seq_n
    acked_n,            \* self.acked_n
    send_q,             \* self.send_q
    recv_expect_seq_n,  \* self.recv_expect_seq_n
    recv_q,             \* self.recv_q
    closed,             \* self.closed
    should_close,       \* self.should_close
    inflight_q,         \* the local inflight_q of _sender
    sender_pc,          \* position of the _sender thread
    listener_pc,        \* position of the _listener thread
    recv_pc,            \* position of the application thread calling recv()
    stopped,            \* the endpoint's stoprecv() has been called
    net,                \* datagrams in flight towards each endpoint
    app_sent,           \* history: bytes the application passed to send()
    delivered,          \* history: the packets recv() returned
    enqueued,           \* history: the datagrams put on send_q, in order
    corrupt_seen,       \* history: a listener has met PacketCorruptError
    send_thread,        \* the frame of each application thread inside send()
    recv_thread,        \* the frame of each application thread inside recv()
    adj,                \* Graph.adj of the graph g of the route simulator
    route               \* what the last call dijkstra(g, start) returned

vars == << send_next_seq_n, acked_n, send_q, recv_expect_seq_n, recv_q,
           closed, should_close, inflight_q, sender_pc, listener_pc,
           recv_pc, stopped, net, app_sent, delivered, enqueued,
           corrupt_seen, send_thread, recv_thread, adj, route >>

graphVars == << adj, route >>

streamVars == << send_next_seq_n, acked_n, send_q, recv_expect_seq_n, recv_q,
                 closed, should_close >>

\* The application threads that call send() on stream A, or recv() on
\* stream B, at the same time.
Threads == {"t1", "t2"}

\* The frame of a call of send(): the position, the locals data_bytes and
\* send_buf, and the value `self.send_next_seq_n += 1` has loaded.
Frame(pc, data_bytes, send_buf, loaded) ==
    [pc |-> pc, data_bytes |-> data_bytes, send_buf |-> send_buf,
     loaded |-> loaded]

\* The frame of a call of recv(): the position, the local packet (<<>>
\* before recv_q.get() returned) and the value `self.recv_expect_seq_n += 1`
\* has loaded.
RecvFrame(pc, packet, loaded) ==
    [pc |-> pc, packet |-> packet, loaded |-> loaded]

\* Streamer.__init__ of both peers.
Init ==
    /\ send_next_seq_n = [s \in Streams |-> 0]
    /\ acked_n = [s \in Streams |-> 0]
    /\ send_q = [s \in Streams |-> <<>>]
    /\ recv_expect_seq_n = [s \in Streams |-> 0]
    /\ recv_q = [s \in Streams |-> <<>>]
    /\ closed = [s \in Streams |-> FALSE]
    /\ should_close = [s \in Streams |-> FALSE]
    /\ inflight_q = [s \in Streams |-> <<>>]
    /\ sender_pc = [s \in Streams |-> "inner"]
    /\ listener_pc = [s \in Streams |-> "recvfrom"]
    /\ recv_pc = [s \in Streams |-> "idle"]
    /\ stopped = [s \in Streams |-> FALSE]
    /\ net = [s \in Streams |-> {}]
    /\ app_sent = [s \in Streams |-> <<>>]
    /\ delivered = [s \in Streams |-> <<>>]
    /\ enqueued = [s \in Streams |-> <<>>]
    /\ corrupt_seen = FALSE
    /\ send_thread = [t \in Threads |-> Frame("idle", <<>>, <<>>, 0)]
    /\ recv_thread = [t \in Threads |-> RecvFrame("idle", <<>>, 0)]
    /\ adj = <<>>
    /\ route = NoRoute

\* ------------------------------------------------------------- datagrams
\* LossyUDP.sendto towards a channel holding n: the datagram is lost when
\* the channel is full.
sendto(n, w) ==
    IF w \in n \/ Cardinality(n) < NetCap THEN n \cup {w} ELSE n

RECURSIVE sendtoAll(_, _)
sendtoAll(n, ws) ==
    IF ws = <<>> THEN n ELSE sendtoAll(sendto(n, ws[1]), Tail(ws))

Range(f) == {f[i] : i \in DOMAIN f}

\* --------------------------------------------------------------- Streamer
Packets(q) == [i \in 1..Len(q) |-> q[i].packet]

\* The while loop of send() without self.send_next_seq_n += 1.
RECURSIVE Segments_same(_, _, _)
Segments_same(data_bytes, seq_n, timeout_s) ==
    IF data_bytes = <<>> THEN <<>>
    ELSE LET recv_buf_size == IF Len(data_bytes) > PAYLOAD_SIZE
                              THEN Len(data_bytes) - PAYLOAD_SIZE ELSE 0
             send_buf == to_bytes(Packet(seq_n, recv_buf_size, FALSE, FALSE,
                                         Slice(data_bytes, 0, PAYLOAD_SIZE)))
         IN  << InflightPacket(seq_n, NoTime, timeout_s, send_buf) >>
             \o Segments_same(Slice(data_bytes, PAYLOAD_SIZE, Len(data_bytes)),
                              seq_n, timeout_s)

\* The while loop of send() with data_bytes[PAYLOAD_SIZE + 1 :] in place of
\* data_bytes[PAYLOAD_SIZE :].
RECURSIVE Segments_skip(_, _, _)
Segments_skip(data_bytes, seq_n, timeout_s) ==
    IF data_bytes = <<>> THEN <<>>
    ELSE LET recv_buf_size == IF Len(data_bytes) > PAYLOAD_SIZE
                              THEN Len(data_bytes) - PAYLOAD_SIZE ELSE 0
             send_buf == to_bytes(Packet(seq_n, recv_buf_size, FALSE, FALSE,
                                         Slice(data_bytes, 0, PAYLOAD_SIZE)))
         IN  << InflightPacket(seq_n, NoTime, timeout_s, send_buf) >>
             \o Segments_skip(Slice(data_bytes, PAYLOAD_SIZE + 1, Len(data_bytes)),
                              seq_n + 1, timeout_s)

\* The InflightPackets the while loop of send() puts on send_q.
RECURSIVE Segments(_, _, _)
Segments(data_bytes, seq_n, timeout_s) ==
    IF data_bytes = <<>> THEN <<>>
    ELSE LET recv_buf_size == IF Len(data_bytes) > PAYLOAD_SIZE
                              THEN Len(data_bytes) - PAYLOAD_SIZE ELSE 0
             send_buf == to_bytes(Packet(seq_n, recv_buf_size, FALSE, FALSE,
                                         Slice(data_bytes, 0, PAYLOAD_SIZE)))
         IN  << InflightPacket(seq_n, NoTime, timeout_s, send_buf) >>
             \o Segments(Slice(data_bytes, PAYLOAD_SIZE, Len(data_bytes)),
                         seq_n + 1, timeout_s)

\* A send() that transmits each packet itself besides queueing it.
send_transmit(s, data_bytes) ==
    LET segs == Segments(data_bytes, send_next_seq_n[s], ACK_TIMEOUT)
    IN  /\ send_q' = [send_q EXCEPT ![s] = SendQPutAll(@, segs)]
        /\ net' = [net EXCEPT ![Peer(s)] = sendtoAll(@, Packets(segs))]
        /\ send_next_seq_n' = [send_next_seq_n EXCEPT ![s] = @ + Len(segs)]
        /\ app_sent' = [app_sent EXCEPT ![s] = @ \o data_bytes]
        /\ enqueued' = [enqueued EXCEPT ![s] = @ \o Packets(segs)]
        /\ UNCHANGED << acked_n, recv_expect_seq_n, recv_q, closed, should_close,
                        inflight_q, sender_pc, listener_pc, recv_pc, stopped,
                        delivered, corrupt_seen, send_thread, recv_thread, graphVars >>

\* Streamer.send(data_bytes), called by the application (timeout_s=None).
send(s, data_bytes) ==
    LET segs == Segments(data_bytes, send_next_seq_n[s], ACK_TIMEOUT)
    IN  /\ send_q' = [send_q EXCEPT ![s] = SendQPutAll(@, segs)]
        /\ send_next_seq_n' = [send_next_seq_n EXCEPT ![s] = @ + Len(segs)]
        /\ app_sent' = [app_sent EXCEPT ![s] = @ \o data_bytes]
        /\ enqueued' = [enqueued EXCEPT ![s] = @ \o Packets(segs)]
        /\ UNCHANGED << acked_n, recv_expect_seq_n, recv_q, closed, should_close,
                        inflight_q, sender_pc, listener_pc, recv_pc, stopped,
                        net, delivered, corrupt_seen, send_thread, recv_thread, graphVars >>

\* send() step by step, as the threads of the application run it on
\* stream A.  A thread calls send(data_bytes): the first evaluation of
\* `while data_bytes`.
send_call(t, data_bytes) ==
    /\ send_thread[t].pc = "idle"
    /\ send_thread' = [send_thread EXCEPT ![t] =
           Frame(IF data_bytes # <<>> THEN "pack" ELSE "done", data_bytes, <<>>, 0)]
    /\ app_sent' = [app_sent EXCEPT !["A"] = @ \o data_bytes]
    /\ UNCHANGED << streamVars, inflight_q, sender_pc, listener_pc, recv_pc,
                    stopped, net, delivered, enqueued, corrupt_seen, recv_thread, graphVars >>

\* send_buf = Packet(seq_n=self.send_next_seq_n, ...).to_bytes()
send_pack(t) ==
    LET f == send_thread[t]
        recv_buf_size == IF Len(f.data_bytes) > PAYLOAD_SIZE
                         THEN Len(f.data_bytes) - PAYLOAD_SIZE ELSE 0
        send_buf == to_bytes(Packet(send_next_seq_n["A"], recv_buf_size, FALSE,
                                    FALSE, Slice(f.data_bytes, 0, PAYLOAD_SIZE)))
    IN  /\ f.pc = "pack"
        /\ send_thread' = [send_thread EXCEPT ![t] =
               Frame("put", f.data_bytes, send_buf, f.loaded)]
        /\ UNCHANGED << streamVars, inflight_q, sender_pc, listener_pc, recv_pc,
                        stopped, net, app_sent, delivered, enqueued, corrupt_seen, recv_thread, graphVars >>

\* self.send_q.put(InflightPacket(seq_n=self.send_next_seq_n, ...))
send_put(t) ==
    LET f == send_thread[t]
        x == InflightPacket(send_next_seq_n["A"], NoTime, ACK_TIMEOUT, f.send_buf)
    IN  /\ f.pc = "put"
        /\ send_q' = [send_q EXCEPT !["A"] = SendQPut(@, x)]
        /\ enqueued' = [enqueued EXCEPT !["A"] = Append(@, f.send_buf)]
        /\ send_thread' = [send_thread EXCEPT ![t] =
               Frame("load", f.data_bytes, f.send_buf, f.loaded)]
        /\ UNCHANGED << send_next_seq_n, acked_n, recv_expect_seq_n, recv_q,
                        closed, should_close, inflight_q, sender_pc, listener_pc,
                        recv_pc, stopped, net, app_sent, delivered, corrupt_seen, recv_thread, graphVars >>

\* self.send_next_seq_n += 1: the load of the attribute.
send_load(t) ==
    LET f == send_thread[t]
    IN  /\ f.pc = "load"
        /\ send_thread' = [send_thread EXCEPT ![t] =
               Frame("store", f.data_bytes, f.send_buf, send_next_seq_n["A"])]
        /\ UNCHANGED << streamVars, inflight_q, sender_pc, listener_pc, recv_pc,
                        stopped, net, app_sent, delivered, enqueued, corrupt_seen, recv_thread, graphVars >>

\* self.send_next_seq_n += 1: the store of the sum; then
\* data_bytes = data_bytes[PAYLOAD_SIZE :] and the next `while data_bytes`.
send_store(t) ==
    LET f == send_thread[t]
        data_bytes == Slice(f.data_bytes, PAYLOAD_SIZE, Len(f.data_bytes))
    IN  /\ f.pc = "store"
        /\ send_next_seq_n' = [send_next_seq_n EXCEPT !["A"] = f.loaded + 1]
        /\ send_thread' = [send_thread EXCEPT ![t] =
               Frame(IF data_bytes # <<>> THEN "pack" ELSE "done", data_bytes,
                     f.send_buf, f.loaded)]
        /\ UNCHANGED << acked_n, send_q, recv_expect_seq_n, recv_q, closed,
                        should_close, inflight_q, sender_pc, listener_pc, recv_pc,
                        stopped, net, app_sent, delivered, enqueued, corrupt_seen, recv_thread, graphVars >>

\* The condition of the inner while loop of _sender with <= in place of <.
InnerLoopCond_le(q, inflight) == q # <<>> /\ Len(inflight) <= WINDOW

\* The condition of the inner while loop of _sender.
InnerLoopCond(q, inflight) == q # <<>> /\ Len(inflight) < WINDOW

\* The condition of the outer while loop of _sender: a list has no method
\* empty(), so the thread dies with AttributeError as soon as self.closed
\* is true.
SenderLoopCond(s) == IF ~closed[s] THEN "inner" ELSE "dead"

\* One evaluation of the condition of the inner while loop of _sender and,
\* when it holds, the loop body.
sender_admit(s) ==
    LET new_packet == [Head(send_q[s]) EXCEPT !.elapsed = 0]
    IN  /\ sender_pc[s] = "inner"
        /\ IF InnerLoopCond(send_q[s], inflight_q[s])
           THEN /\ send_q' = [send_q EXCEPT ![s] = Tail(@)]
                /\ net' = [net EXCEPT ![Peer(s)] = sendto(@, new_packet.packet)]
                /\ inflight_q' = [inflight_q EXCEPT ![s] = Append(@, new_packet)]
                /\ UNCHANGED sender_pc
           ELSE /\ sender_pc' = [sender_pc EXCEPT ![s] = "scan"]
                /\ UNCHANGED << send_q, net, inflight_q >>
        /\ UNCHANGED << send_next_seq_n, acked_n, recv_expect_seq_n, recv_q,
                        closed, should_close, listener_pc, recv_pc, stopped,
                        app_sent, delivered, enqueued, corrupt_seen, send_thread, recv_thread, graphVars >>

\* The number of leading entries of q with seq_n <= acked: the for loop of
\* _sender leaves idx at this number minus one.
RECURSIVE LeadingAcked(_, _)
LeadingAcked(q, acked) ==
    IF q = <<>> \/ q[1].seq_n > acked THEN 0
    ELSE 1 + LeadingAcked(Tail(q), acked)

ScanIdx(q, acked) == LeadingAcked(q, acked) - 1

\* resend_all: the first entry that is not acked has timed out.
ScanResendAll(q, acked) ==
    LET i == LeadingAcked(q, acked) + 1
    IN  i <= Len(q) /\ q[i].elapsed > q[i].timeout_s

\* if idx > 0: inflight_q = inflight_q[idx:]
ScanTrim(q, acked) ==
    LET idx == ScanIdx(q, acked)
    IN  IF idx > 0 THEN Slice(q, idx, Len(q)) ELSE q

\* pack.start_time = time.time() for the first pack only.
Restart_head(q) ==
    [i \in 1..Len(q) |-> IF i = 1 THEN [q[i] EXCEPT !.elapsed = 0] ELSE q[i]]

\* pack.start_time = time.time() for every pack
Restart(q) == [i \in 1..Len(q) |-> [q[i] EXCEPT !.elapsed = 0]]

\* The rest of one iteration of _sender after the inner loop: the scan, the
\* trim, the resend, and the next evaluation of the outer loop condition.
sender_scan(s) ==
    LET q == inflight_q[s]
        resend_all == ScanResendAll(q, acked_n[s])
        trimmed == ScanTrim(q, acked_n[s])
        after == IF resend_all THEN Restart(trimmed) ELSE trimmed
    IN  /\ sender_pc[s] = "scan"
        /\ inflight_q' = [inflight_q EXCEPT ![s] = after]
        /\ net' = [net EXCEPT ![Peer(s)] =
                      IF resend_all THEN sendtoAll(@, Packets(trimmed)) ELSE @]
        /\ sender_pc' = [sender_pc EXCEPT ![s] = SenderLoopCond(s)]
        /\ UNCHANGED << streamVars, listener_pc, recv_pc, stopped, app_sent,
                        delivered, enqueued, corrupt_seen, send_thread, recv_thread, graphVars >>

\* The while condition of recv().
RecvLoopCond(s) == IF ~closed[s] THEN "get" ELSE "idle"

\* The application calls recv(): the first evaluation of the while condition.
recv_call(s) ==
    /\ recv_pc[s] = "idle"
    /\ recv_pc' = [recv_pc EXCEPT ![s] = RecvLoopCond(s)]
    /\ UNCHANGED << streamVars, inflight_q, sender_pc, listener_pc, stopped,
                    net, app_sent, delivered, enqueued, corrupt_seen, send_thread, recv_thread, graphVars >>

\* if packet.seq_n == self.recv_expect_seq_n, with <= in place of ==.
RecvInOrder_le(packet, expect) == packet.seq_n <= expect

\* if packet.seq_n == self.recv_expect_seq_n, with >= in place of ==.
RecvInOrder_ge(packet, expect) == packet.seq_n >= expect

\* if packet.seq_n == self.recv_expect_seq_n
RecvInOrder(packet, expect) == packet.seq_n = expect

\* One pass of the while loop of recv() that drops every packet it does
\* not return, without self.recv_q.put(packet).
recv_get_drop(s) ==
    /\ recv_pc[s] = "get"
    /\ recv_q[s] # <<>>
    /\ LET packet == Head(recv_q[s])
           send_buf == to_bytes(Packet(packet.seq_n, 0, TRUE, FALSE, <<>>))
       IN  IF RecvInOrder(packet, recv_expect_seq_n[s])
           THEN /\ recv_q' = [recv_q EXCEPT ![s] = Tail(@)]
                /\ recv_expect_seq_n' = [recv_expect_seq_n EXCEPT ![s] = @ + 1]
                /\ net' = [net EXCEPT ![Peer(s)] = sendto(@, send_buf)]
                /\ delivered' = [delivered EXCEPT ![s] = Append(@, packet)]
                /\ recv_pc' = [recv_pc EXCEPT ![s] = "idle"]
           ELSE /\ recv_q' = [recv_q EXCEPT ![s] = Tail(@)]
                /\ recv_pc' = [recv_pc EXCEPT ![s] = RecvLoopCond(s)]
                /\ UNCHANGED << recv_expect_seq_n, net, delivered >>
    /\ UNCHANGED << send_next_seq_n, acked_n, send_q, closed, should_close,
                    inflight_q, sender_pc, listener_pc, stopped, app_sent,
                    enqueued, corrupt_seen, send_thread, recv_thread, graphVars >>

\* One pass of the while loop of recv() that answers a duplicate with an
\* ACK before it drops it.
recv_get_reack(s) ==
    /\ recv_pc[s] = "get"
    /\ recv_q[s] # <<>>
    /\ LET packet == Head(recv_q[s])
           send_buf == to_bytes(Packet(packet.seq_n, 0, TRUE, FALSE, <<>>))
       IN  IF RecvInOrder(packet, recv_expect_seq_n[s])
           THEN /\ recv_q' = [recv_q EXCEPT ![s] = Tail(@)]
                /\ recv_expect_seq_n' = [recv_expect_seq_n EXCEPT ![s] = @ + 1]
                /\ net' = [net EXCEPT ![Peer(s)] = sendto(@, send_buf)]
                /\ delivered' = [delivered EXCEPT ![s] = Append(@, packet)]
                /\ recv_pc' = [recv_pc EXCEPT ![s] = "idle"]
           ELSE /\ IF packet.seq_n < recv_expect_seq_n[s]
                   THEN /\ recv_q' = [recv_q EXCEPT ![s] = Tail(@)]
                        /\ net' = [net EXCEPT ![Peer(s)] = sendto(@, send_buf)]
                   ELSE /\ recv_q' = [recv_q EXCEPT ![s] = RecvQPut(Tail(@), packet)]
                        /\ UNCHANGED net
                /\ recv_pc' = [recv_pc EXCEPT ![s] = RecvLoopCond(s)]
                /\ UNCHANGED << recv_expect_seq_n, delivered >>
    /\ UNCHANGED << send_next_seq_n, acked_n, send_q, closed, should_close,
                    inflight_q, sender_pc, listener_pc, stopped, app_sent,
                    enqueued, corrupt_seen, send_thread, recv_thread, graphVars >>

\* One pass of the while loop of recv(), from recv_q.get() on.
recv_get(s) ==
    /\ recv_pc[s] = "get"
    /\ recv_q[s] # <<>>
    /\ LET packet == Head(recv_q[s])
           send_buf == to_bytes(Packet(packet.seq_n, 0, TRUE, FALSE, <<>>))
       IN  IF RecvInOrder(packet, recv_expect_seq_n[s])
           THEN /\ recv_q' = [recv_q EXCEPT ![s] = Tail(@)]
                /\ recv_expect_seq_n' = [recv_expect_seq_n EXCEPT ![s] = @ + 1]
                /\ net' = [net EXCEPT ![Peer(s)] = sendto(@, send_buf)]
                /\ delivered' = [delivered EXCEPT ![s] = Append(@, packet)]
                /\ recv_pc' = [recv_pc EXCEPT ![s] = "idle"]
           ELSE /\ IF packet.seq_n < recv_expect_seq_n[s]
                   THEN recv_q' = [recv_q EXCEPT ![s] = Tail(@)]
                   ELSE recv_q' = [recv_q EXCEPT ![s] = RecvQPut(Tail(@), packet)]
                /\ recv_pc' = [recv_pc EXCEPT ![s] = RecvLoopCond(s)]
                /\ UNCHANGED << recv_expect_seq_n, net, delivered >>
    /\ UNCHANGED << send_next_seq_n, acked_n, send_q, closed, should_close,
                    inflight_q, sender_pc, listener_pc, stopped, app_sent,
                    enqueued, corrupt_seen, send_thread, recv_thread, graphVars >>

\* recv() called by thread t of the application of s, statement by
\* statement: the threads share recv_q, which locks each get() and put(),
\* and recv_expect_seq_n, which nothing locks.
\* The call and the while condition (line 214); a closed stream returns None.
recv_enter(s, t) ==
    /\ recv_thread[t].pc = "idle"
    /\ recv_thread' = [recv_thread EXCEPT ![t] =
            RecvFrame(RecvLoopCond(s), <<>>, 0)]
    /\ UNCHANGED << streamVars, inflight_q, sender_pc, listener_pc, recv_pc,
                    stopped, net, app_sent, delivered, enqueued, corrupt_seen,
                    send_thread, graphVars >>

\* packet = self.recv_q.get() (line 215), which blocks on an empty queue.
recv_take(s, t) ==
    /\ recv_thread[t].pc = "get"
    /\ recv_q[s] # <<>>
    /\ recv_q' = [recv_q EXCEPT ![s] = Tail(@)]
    /\ recv_thread' = [recv_thread EXCEPT ![t] =
            RecvFrame("compare", Head(recv_q[s]), 0)]
    /\ UNCHANGED << send_next_seq_n, acked_n, send_q, recv_expect_seq_n,
                    closed, should_close, inflight_q, sender_pc, listener_pc,
                    recv_pc, stopped, net, app_sent, delivered, enqueued,
                    corrupt_seen, send_thread, graphVars >>

\* if packet.seq_n == self.recv_expect_seq_n (line 218), and in the other
\* case lines 229-233 and the while condition.
recv_compare(s, t) ==
    LET f == recv_thread[t]
    IN  /\ f.pc = "compare"
        /\ IF RecvInOrder(f.packet, recv_expect_seq_n[s])
           THEN /\ recv_thread' = [recv_thread EXCEPT ![t] =
                        RecvFrame("load", f.packet, 0)]
                /\ UNCHANGED recv_q
           ELSE /\ IF f.packet.seq_n < recv_expect_seq_n[s]
                   THEN UNCHANGED recv_q
                   ELSE recv_q' = [recv_q EXCEPT ![s] = RecvQPut(@, f.packet)]
                /\ recv_thread' = [recv_thread EXCEPT ![t] =
                        RecvFrame(RecvLoopCond(s), <<>>, 0)]
        /\ UNCHANGED << send_next_seq_n, acked_n, send_q, recv_expect_seq_n,
                        closed, should_close, inflight_q, sender_pc,
                        listener_pc, recv_pc, stopped, net, app_sent,
                        delivered, enqueued, corrupt_seen, send_thread,
                        graphVars >>

\* The read of self.recv_expect_seq_n += 1 (line 219).
recv_load(s, t) ==
    LET f == recv_thread[t]
    IN  /\ f.pc = "load"
        /\ recv_thread' = [recv_thread EXCEPT ![t] =
                RecvFrame("store", f.packet, recv_expect_seq_n[s])]
        /\ UNCHANGED << streamVars, inflight_q, sender_pc, listener_pc,
                        recv_pc, stopped, net, app_sent, delivered, enqueued,
                        corrupt_seen, send_thread, graphVars >>

\* The write of self.recv_expect_seq_n += 1 (line 219), the ACK (lines
\* 222-225) and return packet.payload (line 227).
recv_store(s, t) ==
    LET f == recv_thread[t]
        send_buf == to_bytes(Packet(f.packet.seq_n, 0, TRUE, FALSE, <<>>))
    IN  /\ f.pc = "store"
        /\ recv_expect_seq_n' = [recv_expect_seq_n EXCEPT ![s] = f.loaded + 1]
        /\ net' = [net EXCEPT ![Peer(s)] = sendto(@, send_buf)]
        /\ delivered' = [delivered EXCEPT ![s] = Append(@, f.packet)]
        /\ recv_thread' = [recv_thread EXCEPT ![t] = RecvFrame("idle", <<>>, 0)]
        /\ UNCHANGED << send_next_seq_n, acked_n, send_q, recv_q, closed,
                        should_close, inflight_q, sender_pc, listener_pc,
                        recv_pc, stopped, app_sent, enqueued, corrupt_seen,
                        send_thread, graphVars >>

\* The while condition of _listener as `while True`.
ListenerLoopCond_true(s) == "recvfrom"

\* The while condition of _listener.
ListenerLoopCond(s) == IF ~closed[s] THEN "recvfrom" ELSE "done"

\* The channel towards s after the datagram sent has been received.
Received(n, sent, keep) == IF keep THEN n ELSE n \ {sent}

\* The answer of _listener to a FIN, with the fin flag left out.
FinAck_nofin(packet) == Packet(packet.seq_n, 0, TRUE, FALSE, <<>>)

\* The answer of _listener to a FIN:
\* Packet(seq_n=packet.seq_n, recv_buf_size=0, ack=True, fin=True)
FinAck(packet) == Packet(packet.seq_n, 0, TRUE, TRUE, <<>>)

\* One pass of the while loop of _listener without the `continue` of the
\* ACK branch: an ACK is also put on recv_q.
listener_recv_park(s, sent, buf, keep) ==
    LET packet == from_bytes(buf)
        send_buf == to_bytes(FinAck(packet))
    IN  /\ listener_pc[s] = "recvfrom"
        /\ ~stopped[s]
        /\ UNCHANGED << send_next_seq_n, send_q, recv_expect_seq_n, closed,
                        inflight_q, sender_pc, recv_pc, stopped, app_sent,
                        delivered, enqueued, send_thread, recv_thread, graphVars >>
        /\ listener_pc' = [listener_pc EXCEPT ![s] = ListenerLoopCond(s)]
        /\ IF packet = PacketCorruptError
           THEN /\ net' = [net EXCEPT ![s] = Received(@, sent, keep)]
                /\ corrupt_seen' = TRUE
                /\ UNCHANGED << acked_n, should_close, recv_q >>
           ELSE IF packet.ack
           THEN /\ acked_n' = [acked_n EXCEPT ![s] = packet.seq_n]
                /\ should_close' = [should_close EXCEPT ![s] = @ \/ packet.fin]
                /\ net' = [net EXCEPT ![s] = Received(@, sent, keep)]
                /\ recv_q' = [recv_q EXCEPT ![s] = RecvQPut(@, packet)]
                /\ UNCHANGED corrupt_seen
           ELSE IF packet.fin
           THEN /\ net' = [net EXCEPT ![s] = Received(@, sent, keep),
                                      ![Peer(s)] = sendto(@, send_buf)]
                /\ should_close' = [should_close EXCEPT ![s] = TRUE]
                /\ UNCHANGED << acked_n, recv_q, corrupt_seen >>
           ELSE /\ recv_q' = [recv_q EXCEPT ![s] = RecvQPut(@, packet)]
                /\ net' = [net EXCEPT ![s] = Received(@, sent, keep)]
                /\ UNCHANGED << acked_n, should_close, corrupt_seen >>

\* One pass of the while loop of _listener in which recvfrom() returns buf.
\* The channel: buf arrives in place of the datagram sent, of which the
\* channel keeps a duplicate when keep is true.
listener_recv(s, sent, buf, keep) ==
    LET packet == from_bytes(buf)
        send_buf == to_bytes(FinAck(packet))
    IN  /\ listener_pc[s] = "recvfrom"
        /\ ~stopped[s]
        /\ UNCHANGED << send_next_seq_n, send_q, recv_expect_seq_n, closed,
                        inflight_q, sender_pc, recv_pc, stopped, app_sent,
                        delivered, enqueued, send_thread, recv_thread, graphVars >>
        /\ listener_pc' = [listener_pc EXCEPT ![s] = ListenerLoopCond(s)]
        /\ IF packet = PacketCorruptError
           THEN /\ net' = [net EXCEPT ![s] = Received(@, sent, keep)]
                /\ corrupt_seen' = TRUE
                /\ UNCHANGED << acked_n, should_close, recv_q >>
           ELSE IF packet.ack
           THEN /\ acked_n' = [acked_n EXCEPT ![s] = packet.seq_n]
                /\ should_close' = [should_close EXCEPT ![s] = @ \/ packet.fin]
                /\ net' = [net EXCEPT ![s] = Received(@, sent, keep)]
                /\ UNCHANGED << recv_q, corrupt_seen >>
           ELSE IF packet.fin
           THEN /\ net' = [net EXCEPT ![s] = Received(@, sent, keep),
                                      ![Peer(s)] = sendto(@, send_buf)]
                /\ should_close' = [should_close EXCEPT ![s] = TRUE]
                /\ UNCHANGED << acked_n, recv_q, corrupt_seen >>
           ELSE /\ recv_q' = [recv_q EXCEPT ![s] = RecvQPut(@, packet)]
                /\ net' = [net EXCEPT ![s] = Received(@, sent, keep)]
                /\ UNCHANGED << acked_n, should_close, corrupt_seen >>

\* recvfrom() returns empty after stoprecv(): `continue`, then the while
\* condition.
listener_stopped(s) ==
    /\ listener_pc[s] = "recvfrom"
    /\ stopped[s]
    /\ listener_pc' = [listener_pc EXCEPT ![s] = ListenerLoopCond(s)]
    /\ UNCHANGED << streamVars, inflight_q, sender_pc, recv_pc, stopped, net,
                    app_sent, delivered, enqueued, corrupt_seen, send_thread, recv_thread, graphVars >>

\* Streamer.close() as its comment "Sends and waits for FIN ACK" reads: it
\* does not go on before the listener has raised should_close.
close_waiting(s) ==
    /\ should_close[s]
    /\ closed' = [closed EXCEPT ![s] = TRUE]
    /\ stopped' = [stopped EXCEPT ![s] = TRUE]
    /\ UNCHANGED << send_next_seq_n, acked_n, send_q, recv_expect_seq_n,
                    recv_q, should_close, inflight_q, sender_pc, listener_pc,
                    recv_pc, net, app_sent, delivered, enqueued, corrupt_seen, send_thread, recv_thread, graphVars >>

\* Streamer.close() that raises should_close itself.
close_raise(s) ==
    LET fin_pack == Packet(send_next_seq_n[s], 0, FALSE, TRUE, <<>>)
        segs == Segments(to_bytes(fin_pack), send_next_seq_n[s], FIN_TIMEOUT)
        next_seq_n == send_next_seq_n[s] + Len(segs)
        ack_pack == Packet(next_seq_n, 0, TRUE, FALSE, <<>>)
    IN  /\ IF ~should_close[s]
           THEN /\ send_q' = [send_q EXCEPT ![s] = SendQPutAll(@, segs)]
                /\ send_next_seq_n' = [send_next_seq_n EXCEPT ![s] = next_seq_n]
                /\ enqueued' = [enqueued EXCEPT ![s] = @ \o Packets(segs)]
                /\ net' = [net EXCEPT ![Peer(s)] = sendto(@, to_bytes(ack_pack))]
           ELSE UNCHANGED << send_q, send_next_seq_n, enqueued, net >>
        /\ closed' = [closed EXCEPT ![s] = TRUE]
        /\ stopped' = [stopped EXCEPT ![s] = TRUE]
        /\ should_close' = [should_close EXCEPT ![s] = TRUE]
        /\ UNCHANGED << acked_n, recv_expect_seq_n, recv_q,
                        inflight_q, sender_pc, listener_pc, recv_pc, app_sent,
                        delivered, corrupt_seen, send_thread, recv_thread, graphVars >>

\* Streamer.close()
close(s) ==
    LET fin_pack == Packet(send_next_seq_n[s], 0, FALSE, TRUE, <<>>)
        \* self.send(fin_pack.to_bytes(), timeout_s=2)
        segs == Segments(to_bytes(fin_pack), send_next_seq_n[s], FIN_TIMEOUT)
        next_seq_n == send_next_seq_n[s] + Len(segs)
        ack_pack == Packet(next_seq_n, 0, TRUE, FALSE, <<>>)
    IN  /\ IF ~should_close[s]
           THEN /\ send_q' = [send_q EXCEPT ![s] = SendQPutAll(@, segs)]
                /\ send_next_seq_n' = [send_next_seq_n EXCEPT ![s] = next_seq_n]
                /\ enqueued' = [enqueued EXCEPT ![s] = @ \o Packets(segs)]
                /\ net' = [net EXCEPT ![Peer(s)] = sendto(@, to_bytes(ack_pack))]
           ELSE UNCHANGED << send_q, send_next_seq_n, enqueued, net >>
        /\ closed' = [closed EXCEPT ![s] = TRUE]
        /\ stopped' = [stopped EXCEPT ![s] = TRUE]
        /\ UNCHANGED << acked_n, recv_expect_seq_n, recv_q, should_close,
                        inflight_q, sender_pc, listener_pc, recv_pc, app_sent,
                        delivered, corrupt_seen, send_thread, recv_thread, graphVars >>

\* ------------------------------------------------------------ environment
\* The datagram service loses the datagram sent on its way to s.
Drop(s, sent) ==
    /\ sent \in net[s]
    /\ net' = [net EXCEPT ![s] = @ \ {sent}]
    /\ UNCHANGED << streamVars, inflight_q, sender_pc, listener_pc, recv_pc,
                    stopped, app_sent, delivered, enqueued, corrupt_seen, send_thread, recv_thread, graphVars >>

FlipBit(x, b) == IF (x \div (2 ^ b)) % 2 = 1 THEN x - 2 ^ b ELSE x + 2 ^ b

\* Where the datagram service flips a bit of a datagram: (cell, bit).
Flips == { << 1, 0 >>, << 3, 3 >>, << 3, 7 >>, << 4, 0 >>, << 5, 1 >> }

\* The datagram sent with one bit flipped.
Garbled(sent) ==
    { [sent EXCEPT ![f[1]] = FlipBit(@, f[2])] : f \in {g \in Flips : g[1] <= Len(sent)} }

\* A quarter of a second passes: time.time() - start_time grows for the
\* entries of every running sender.
Age(p) == IF p.elapsed > p.timeout_s THEN p ELSE [p EXCEPT !.elapsed = @ + 1]

Tick ==
    /\ inflight_q' = [s \in Streams |->
                        IF sender_pc[s] = "dead" THEN inflight_q[s]
                        ELSE [i \in 1..Len(inflight_q[s]) |-> Age(inflight_q[s][i])]]
    /\ UNCHANGED << streamVars, sender_pc, listener_pc, recv_pc, stopped, net,
                    app_sent, delivered, enqueued, corrupt_seen, send_thread, recv_thread, graphVars >>

\* ----------------------------------------------------------- graph calls
\* The number of edges of g.
RECURSIVE NumEntries(_, _)
NumEntries(g, vs) ==
    IF vs = {} THEN 0
    ELSE LET v == CHOOSE x \in vs : TRUE
         IN  Len(g[v]) + NumEntries(g, vs \ {v})

NumEdges(g) == NumEntries(g, DOMAIN g) \div 2

\* g.add_edge(n1, n2, weight)
AddEdge(n1, n2, weight) ==
    /\ NumEdges(adj) < MaxEdges
    /\ adj' = add_edge(adj, n1, n2, weight)
    /\ route' = NoRoute
    /\ UNCHANGED << streamVars, inflight_q, sender_pc, listener_pc, recv_pc,
                    stopped, net, app_sent, delivered, enqueued, corrupt_seen,
                    send_thread, recv_thread >>

\* g.remove_edge(n1, n2)
RemoveEdge(n1, n2) ==
    /\ adj' = remove_edge(adj, n1, n2)
    /\ route' = NoRoute
    /\ UNCHANGED << streamVars, inflight_q, sender_pc, listener_pc, recv_pc,
                    stopped, net, app_sent, delivered, enqueued, corrupt_seen,
                    send_thread, recv_thread >>

\* dijkstra(g, start); reading the neighbors of start creates its key.
DijkstraCall(start) ==
    /\ route' = dijkstra(adj, start)
    /\ adj' = Touch(adj, start)
    /\ UNCHANGED << streamVars, inflight_q, sender_pc, listener_pc, recv_pc,
                    stopped, net, app_sent, delivered, enqueued, corrupt_seen,
                    send_thread, recv_thread >>

\* --------------------------------------------------------- specification
\* Stream A's application sends and closes, stream B's receives.  Stream B
\* has nothing to send, so the passes of its sender thread change nothing
\* and are left out.
DataSet == { << 7 >>, << 1, 2, 3, 4, 5 >> }

NumSegments(data_bytes) == (Len(data_bytes) + PAYLOAD_SIZE - 1) \div PAYLOAD_SIZE

AppSend ==
    \E d \in DataSet :
        /\ send_next_seq_n["A"] + NumSegments(d) <= MaxSeq
        /\ send("A", d)

AppClose ==
    /\ ~closed["A"]
    /\ should_close["A"] \/ send_next_seq_n["A"] < MaxSeq
    /\ close("A")

AppRecvCall == recv_call("B")

AppRecv == recv_get("B")

Deliver ==
    \E s \in Streams : \E sent \in net[s] : \E keep \in BOOLEAN :
        /\ Len(recv_q[s]) < MaxRecvQ
        /\ listener_recv(s, sent, sent, keep)

DeliverGarbled ==
    \E s \in Streams : \E sent \in net[s] : \E keep \in BOOLEAN :
        \E buf \in Garbled(sent) :
            /\ Len(recv_q[s]) < MaxRecvQ
            /\ listener_recv(s, sent, buf, keep)

Lose == \E s \in Streams : \E sent \in net[s] : Drop(s, sent)

ListenerExit == \E s \in Streams : listener_stopped(s)

Next ==
    \/ AppSend
    \/ AppClose
    \/ AppRecvCall
    \/ AppRecv
    \/ sender_admit("A")
    \/ sender_scan("A")
    \/ Deliver
    \/ Lose
    \/ ListenerExit
    \/ Tick

\* The datagram service loses, duplicates and reorders datagrams.
Spec == Init /\ [][Next]_vars

\* The datagram service also flips bits; no stream is closed.
NextGarble ==
    \/ AppSend
    \/ AppRecvCall
    \/ AppRecv
    \/ sender_admit("A")
    \/ sender_scan("A")
    \/ Deliver
    \/ DeliverGarbled
    \/ Lose
    \/ Tick

SpecGarble == Init /\ [][NextGarble]_vars

\* The sender of A alone.  The application of A sends one burst of MaxBurst
\* packets, which fills the window.  Stream B is left out: what reaches A
\* from it are ACKs, in any order and any number of times, of packets that
\* A has transmitted.
BurstData == [i \in 1..(MaxBurst * PAYLOAD_SIZE) |-> i % 250]

BurstSend ==
    /\ send_next_seq_n["A"] = 0
    /\ send("A", BurstData)

Transmitted(s) == send_next_seq_n[s] - Len(send_q[s])

AckArrives ==
    \E n \in 0..(Transmitted("A") - 1) :
        LET ack == to_bytes(Packet(n, 0, TRUE, FALSE, <<>>))
        IN  listener_recv("A", ack, ack, TRUE)

NextWindow ==
    \/ BurstSend
    \/ sender_admit("A")
    \/ sender_scan("A")
    \/ AckArrives

SpecWindow == Init /\ [][NextWindow]_vars

\* Neither stream is closed and the application of A sends a single packet.
\* The threads are scheduled fairly, the application of B keeps calling
\* recv(), time passes, and a datagram that is on the channel again and
\* again is eventually received.
LiveData == {<<7>>, <<1, 2, 3>>}

LiveWires ==
    {to_bytes(Packet(0, 0, FALSE, FALSE, d)) : d \in LiveData}
        \cup {to_bytes(Packet(0, 0, TRUE, FALSE, <<>>))}

LiveSend ==
    /\ send_next_seq_n["A"] = 0
    /\ \E d \in LiveData : send("A", d)

DeliverWire(s, w) ==
    /\ w \in net[s]
    /\ Len(recv_q[s]) < MaxRecvQ
    /\ listener_recv(s, w, w, FALSE)

NextLive ==
    \/ LiveSend
    \/ AppRecvCall
    \/ AppRecv
    \/ sender_admit("A")
    \/ sender_scan("A")
    \/ Deliver
    \/ Lose
    \/ Tick

SpecLive ==
    /\ Init
    /\ [][NextLive]_vars
    /\ WF_vars(sender_admit("A"))
    /\ WF_vars(sender_scan("A"))
    /\ WF_vars(AppRecvCall)
    /\ WF_vars(AppRecv)
    /\ WF_vars(Tick)
    /\ \A s \in Streams : \A w \in LiveWires : SF_vars(DeliverWire(s, w))

\* Stream A against an arbitrary remote endpoint.  Any valid datagram of
\* PeerWires may arrive at A at any time and any number of times; what A
\* transmits waits on the channel towards B until it is lost.  The
\* application of A calls recv() and close(), close() also repeatedly.
PeerWires ==
    {to_bytes(Packet(n, 0, FALSE, FALSE, <<7>>)) : n \in 0..(MaxSeq - 1)}
        \cup {to_bytes(Packet(x[1], 0, x[2], x[3], <<>>)) :
                 x \in {y \in (0..(MaxSeq - 1)) \X BOOLEAN \X BOOLEAN :
                            y[2] \/ y[3]}}

PeerDatagram ==
    \E w \in PeerWires :
        /\ Len(recv_q["A"]) < MaxRecvQ
        /\ listener_recv("A", w, w, TRUE)

CloseCall ==
    /\ should_close["A"] \/ send_next_seq_n["A"] < MaxSeq
    /\ close("A")

NextPeer ==
    \/ PeerDatagram
    \/ recv_call("A")
    \/ recv_get("A")
    \/ CloseCall
    \/ sender_admit("A")
    \/ sender_scan("A")
    \/ listener_stopped("A")
    \/ Lose

SpecPeer == Init /\ [][NextPeer]_vars

\* The same, with the threads of A scheduled fairly: the application thread
\* in recv(), the sender thread and the listener thread.
SpecPeerFair ==
    /\ SpecPeer
    /\ WF_vars(recv_get("A"))
    /\ WF_vars(sender_admit("A"))
    /\ WF_vars(sender_scan("A"))
    /\ WF_vars(listener_stopped("A"))

\* The remote endpoint is silent: nothing ever arrives at A.  The
\* application of A is in close() and its thread is scheduled; nothing is
\* assumed of the channel or of the other threads.
CloseOnce ==
    /\ ~closed["A"]
    /\ close("A")

NextClosing ==
    \/ CloseOnce
    \/ recv_call("A")
    \/ sender_admit("A")
    \/ sender_scan("A")
    \/ listener_stopped("A")
    \/ Lose
    \/ Tick

SpecClosing == Init /\ [][NextClosing]_vars /\ WF_vars(CloseOnce)

\* Segmentation: the application of A calls send() with data of every
\* length from 0 to MaxSendLen; the sender thread takes the packets from
\* send_q.
SendData == {[i \in 1..n |-> i] : n \in 0..MaxSendLen}

SegSend ==
    \E d \in SendData :
        /\ send_next_seq_n["A"] + NumSegments(d) <= MaxSendSeq
        /\ send("A", d)

NextSend ==
    \/ SegSend
    \/ sender_admit("A")
    \/ sender_scan("A")

SpecSend == Init /\ [][NextSend]_vars

\* The sender of A with a full window, as in SpecWindow; the application
\* of A also calls close() and calls send() again: once at any time after
\* the burst (MidData) and once on the closed stream while the window is
\* full (LateData).
MidData == <<7>>
LateData == <<8>>

FrameClose ==
    /\ ~closed["A"]
    /\ send_next_seq_n["A"] > 0
    /\ close("A")

MidSend ==
    /\ app_sent["A"] = BurstData
    /\ send("A", MidData)

LateSend ==
    /\ closed["A"]
    /\ Len(inflight_q["A"]) = WINDOW
    /\ app_sent["A"] \in {BurstData, BurstData \o MidData}
    /\ send("A", LateData)

NextFrame ==
    \/ BurstSend
    \/ MidSend
    \/ LateSend
    \/ FrameClose
    \/ sender_admit("A")
    \/ sender_scan("A")
    \/ AckArrives

SpecFrame == Init /\ [][NextFrame]_vars

\* Two threads of the application call send() on stream A once each, at the
\* same time; the sender thread of A runs.
ThreadData == {<<7>>, <<1, 2, 3, 4, 5>>}

ThreadCall == \E t \in Threads : \E d \in ThreadData : send_call(t, d)

ThreadPack == \E t \in Threads : send_pack(t)

ThreadPut == \E t \in Threads : send_put(t)

ThreadLoad == \E t \in Threads : send_load(t)

ThreadStore == \E t \in Threads : send_store(t)

NextThreads ==
    \/ ThreadCall
    \/ ThreadPack
    \/ ThreadPut
    \/ ThreadLoad
    \/ ThreadStore
    \/ sender_admit("A")
    \/ sender_scan("A")

SpecThreads == Init /\ [][NextThreads]_vars

\* The route simulator builds and changes a graph and runs dijkstra on it.
GraphAdd == \E n1, n2 \in Nodes : \E w \in Weights : AddEdge(n1, n2, w)

GraphRemove == \E n1, n2 \in Nodes : RemoveEdge(n1, n2)

GraphDijkstra == \E start \in Nodes : DijkstraCall(start)

NextGraph ==
    \/ GraphAdd
    \/ GraphRemove
    \/ GraphDijkstra

SpecGraph == Init /\ [][NextGraph]_vars

\* Stream A sends a burst that overfills the window.  The application of B
\* does not call recv(), so B's listener only parks what arrives; it calls
\* close().  The channel delivers what it holds, to either side, once.
PeerClose ==
    /\ ~closed["B"]
    /\ close("B")

DeliverOnce ==
    \E s \in Streams : \E w \in net[s] :
        /\ Len(recv_q[s]) < MaxRecvQ
        /\ listener_recv(s, w, w, FALSE)

NextBackpressure ==
    \/ BurstSend
    \/ sender_admit("A")
    \/ sender_scan("A")
    \/ DeliverOnce
    \/ PeerClose

SpecBackpressure == Init /\ [][NextBackpressure]_vars

\* Stream A against an arbitrary remote endpoint over a channel that also
\* flips bits: a datagram of PeerWires may arrive with one bit flipped.
PeerGarbled ==
    \E w \in PeerWires : \E buf \in Garbled(w) :
        /\ Len(recv_q["A"]) < MaxRecvQ
        /\ listener_recv("A", w, buf, TRUE)

NextPeerGarble ==
    \/ PeerDatagram
    \/ PeerGarbled
    \/ recv_call("A")
    \/ recv_get("A")
    \/ CloseCall
    \/ sender_admit("A")
    \/ sender_scan("A")
    \/ listener_stopped("A")
    \/ Lose

SpecPeerGarble == Init /\ [][NextPeerGarble]_vars

\* A remote endpoint that sets any bits of the flags byte: the datagram
\* with the given header and payload and the digest that fits them.
RawWire(seq_n, recv_buf_size, _flags, payload) ==
    << seq_n, recv_buf_size, _flags >>
        \o calcHash(<< seq_n, recv_buf_size, _flags >> \o payload) \o payload

\* Bit b of the byte x.
Bit(x, b) == (x \div (2 ^ b)) % 2

\* The flags byte with every bit but 3 and 7 cleared.
FlagBits(x) == 8 * Bit(x, 3) + 128 * Bit(x, 7)

\* The payload tells whether the flags byte had a bit other than 3 and 7.
FlagsWire(seq_n, _flags) ==
    RawWire(seq_n, 0, _flags, << IF _flags # FlagBits(_flags) THEN 1 ELSE 0 >>)

FlagsDatagram ==
    \E n \in 0..(MaxSeq - 1) : \E _flags \in 0..255 :
        /\ Len(recv_q["A"]) < MaxRecvQ
        /\ listener_recv("A", FlagsWire(n, _flags), FlagsWire(n, _flags), TRUE)

NextFlags ==
    \/ FlagsDatagram
    \/ recv_call("A")
    \/ recv_get("A")

SpecFlags == Init /\ [][NextFlags]_vars

\* Two threads of the application of B call recv() again and again, at the
\* same time, while A sends and the datagram service duplicates.
RecvEnter == \E t \in Threads : recv_enter("B", t)

RecvTake == \E t \in Threads : recv_take("B", t)

RecvCompare == \E t \in Threads : recv_compare("B", t)

RecvLoad == \E t \in Threads : recv_load("B", t)

RecvStore == \E t \in Threads : recv_store("B", t)

NextRecvThreads ==
    \/ AppSend
    \/ sender_admit("A")
    \/ sender_scan("A")
    \/ Deliver
    \/ RecvEnter
    \/ RecvTake
    \/ RecvCompare
    \/ RecvLoad
    \/ RecvStore

SpecRecvThreads == Init /\ [][NextRecvThreads]_vars

\* ------------------------------------------------------------- properties
RECURSIVE Concat(_)
Concat(ps) == IF ps = <<>> THEN <<>> ELSE Head(ps).payload \o Concat(Tail(ps))

IsPrefix(a, b) == Len(a) <= Len(b) /\ a = SubSeq(b, 1, Len(a))

\* The FIN that close() sent has been in flight for longer than its timeout.
FinTimedOut(s) ==
    \E i \in DOMAIN inflight_q[s] :
        /\ inflight_q[s][i].timeout_s = FIN_TIMEOUT
        /\ inflight_q[s][i].elapsed > FIN_TIMEOUT

\* C1: the bytes recv() has returned so far on B are a prefix of the bytes
\* the application of A passed to send(), also after a close().
C1_InOrderDelivery == IsPrefix(Concat(delivered["B"]), app_sent["A"])

\* C2: every packet that send() enqueued on A is eventually returned by
\* recv() on B, also packet 0 when it is the only one.
C2_EventualDelivery ==
    \A n \in 0..(MaxSeq - 1) :
        (Len(enqueued["A"]) > n) ~> (Len(delivered["B"]) > n)

\* C3: recv() returns no seq_n twice, however many copies of a datagram the
\* listener has offered; a copy with seq_n < recv_expect_seq_n is dropped.
C3_AtMostOnce ==
    \A s \in Streams : \A i, j \in DOMAIN delivered[s] :
        i # j => delivered[s][i].seq_n # delivered[s][j].seq_n

\* C3 witness: a packet has been returned, and the listener has offered a
\* further copy of it that waits in the reassembly buffer.
C3_Witness ==
    /\ Len(delivered["B"]) = 2
    /\ \E i \in DOMAIN recv_q["B"] : recv_q["B"][i] = delivered["B"][1]
    /\ \E i \in DOMAIN recv_q["B"] : recv_q["B"][i] = delivered["B"][2]

\* The digest that buf carries is not the digest of its header and payload.
DigestMismatch(buf) ==
    calcHash(Slice(buf, 0, HEADER_SIZE) \o Slice(buf, HEADER_SIZE + HASH_SIZE, Len(buf)))
        # Slice(buf, HEADER_SIZE, HEADER_SIZE + HASH_SIZE)

\* C4: a pass of the listener that receives a datagram whose digest does
\* not match changes nothing (it offers nothing to recv_q, leaves acked_n and
\* should_close alone and transmits nothing), and the reassembly buffer and
\* the packets recv() returned hold only what the peer put on its send_q.
C4_CorruptDiscarded ==
    [][/\ \A s \in Streams :
            \/ /\ UNCHANGED << streamVars, inflight_q, sender_pc, recv_pc,
                                listener_pc, stopped, delivered >>
               /\ net'[Peer(s)] = net[Peer(s)]
            \/ \A sent \in net[s] : \A buf \in Garbled(sent) : \A keep \in BOOLEAN :
                    ~(DigestMismatch(buf) /\ listener_recv(s, sent, buf, keep))
       /\ \A s \in Streams :
            /\ \A i \in DOMAIN recv_q'[s] :
                    to_bytes(recv_q'[s][i]) \in Range(enqueued'[Peer(s)])
            /\ \A i \in DOMAIN delivered'[s] :
                    to_bytes(delivered'[s][i]) \in Range(enqueued'[Peer(s)])]_vars

\* C4 witness: a listener has received a datagram with a flipped bit while
\* the intact one had not been returned by recv() yet.
C4_Witness ==
    /\ corrupt_seen
    /\ Len(enqueued["A"]) = 2
    /\ delivered["B"] = <<>>
    /\ recv_q["B"] = <<>>
    /\ net["B"] = {}

\* C5: acked_n never decreases.
C5_MonotonicWatermark ==
    [][\A s \in Streams : acked_n'[s] >= acked_n[s]]_vars

\* C6: every seq_n <= acked_n is the sequence number of a packet of this
\* stream that the peer's recv() has returned.
C6_WatermarkSound ==
    \A s \in Streams : \A n \in 0..acked_n[s] :
        \E i \in DOMAIN delivered[Peer(s)] :
            /\ delivered[Peer(s)][i].seq_n = n
            /\ to_bytes(delivered[Peer(s)][i]) \in Range(enqueued[s])

\* C7: recv_expect_seq_n starts at 0 and counts the packets recv() has
\* returned, whose seq_n are 0, 1, 2, ... without a gap; a pass of recv()
\* that returns nothing leaves it unchanged.
C7_RecvExpect ==
    \A s \in Streams :
        /\ recv_expect_seq_n[s] = Len(delivered[s])
        /\ \A i \in DOMAIN delivered[s] : delivered[s][i].seq_n = i - 1

\* C7 witness: recv() has returned two packets and then taken a duplicate
\* of the first one from the buffer and dropped it.
C7_Witness ==
    /\ Len(delivered["B"]) = 2
    /\ recv_pc["B"] = "get"
    /\ recv_q["B"] = << delivered["B"][2] >>
    /\ net["B"] = {}

\* C8: the in-flight tracker never holds more than WINDOW entries.
C8_BoundedInflight == \A s \in Streams : Len(inflight_q[s]) <= WINDOW

\* C8 witness: after a trim the tracker holds WINDOW entries again, more
\* packets wait on send_q, and the sender has left its inner loop without
\* taking one.
C8_Witness ==
    /\ Len(inflight_q["A"]) = WINDOW
    /\ inflight_q["A"][1].seq_n > 0
    /\ send_q["A"] # <<>>
    /\ sender_pc["A"] = "scan"

\* C9: close() does not set closed before the FIN-ACK has raised
\* should_close or the FIN timeout has expired.
C9_CloseWaitsForFinAck ==
    \A s \in Streams : closed[s] => should_close[s] \/ FinTimedOut(s)

\* C10: whenever closed is set, send_q and the in-flight tracker are empty,
\* unless the close timeout expired.
C10_ClosedMeansDrained ==
    \A s \in Streams :
        closed[s] => (send_q[s] = <<>> /\ inflight_q[s] = <<>>) \/ FinTimedOut(s)

\* C11: the packet close() put on the send queue (the one whose timeout is
\* the FIN timeout) decodes with fin=1, ack=0 and its own seq_n, and is
\* never offered to the peer's reassembly buffer.
C11_ClosePushesFin ==
    \A s \in Streams :
        /\ \A i \in DOMAIN send_q[s] :
              send_q[s][i].timeout_s = FIN_TIMEOUT =>
                  LET p == from_bytes(send_q[s][i].packet)
                  IN  p.fin /\ ~p.ack /\ p.seq_n = send_q[s][i].seq_n
        /\ \A i \in DOMAIN inflight_q[s] :
              inflight_q[s][i].timeout_s = FIN_TIMEOUT =>
                  /\ from_bytes(inflight_q[s][i].packet).fin
                  /\ \A j \in DOMAIN recv_q[Peer(s)] :
                        to_bytes(recv_q[Peer(s)][j]) # inflight_q[s][i].packet

\* C12: the bare ACK close() transmits carries the seq_n of the FIN, the
\* value of send_next_seq_n at the call (checked when the channel has room
\* for the datagram).
C12_BareAckSeq ==
    [][\A s \in Streams :
          (~closed[s] /\ closed'[s] /\ ~should_close[s]
              /\ Cardinality(net[Peer(s)]) < NetCap)
          => to_bytes(Packet(send_next_seq_n[s], 0, TRUE, FALSE, <<>>))
                 \in net'[Peer(s)]]_vars

\* C13: a pass of the listener that receives a valid packet with fin=1,
\* ack=0 and seq_n = n transmits one packet with ack=1, fin=1, seq_n = n to
\* the remote endpoint and sets should_close; it offers nothing to recv_q
\* and leaves acked_n and recv_expect_seq_n alone.
C13_PassiveClose ==
    [][\A s \in Streams : \A n \in 0..(MaxSeq - 1) : \A keep \in BOOLEAN :
          LET fin == to_bytes(Packet(n, 0, FALSE, TRUE, <<>>))
          IN  listener_recv(s, fin, fin, keep) =>
                  /\ net'[Peer(s)] =
                        sendto(net[Peer(s)], to_bytes(Packet(n, 0, TRUE, TRUE, <<>>)))
                  /\ should_close'[s]
                  /\ UNCHANGED << recv_q, acked_n, recv_expect_seq_n >>]_vars

\* C13 witness: the listener of A has answered a FIN with seq_n 1 while a
\* packet waited in its reassembly buffer and nothing had been acknowledged.
C13_Witness ==
    /\ should_close["A"]
    /\ to_bytes(Packet(1, 0, TRUE, TRUE, <<>>)) \in net["B"]
    /\ acked_n["A"] = 0
    /\ Len(recv_q["A"]) = 1

\* C14: a call of close() on a stream that is already closed changes
\* neither send_next_seq_n, send_q, closed nor should_close, and transmits
\* nothing.
C14_IdempotentClose ==
    [][\A s \in Streams :
          (closed[s] /\ close(s)) =>
              UNCHANGED << send_next_seq_n, send_q, closed, should_close, net >>]_vars

\* C15: once the application of A is in close(), the call runs to its end
\* whatever the peer has or has not sent, and at its end closed is set and
\* stoprecv() has been called.
C15_CloseTerminates == <>(closed["A"] /\ stopped["A"])

\* C15 witness: close() has returned on a stream whose peer has sent
\* nothing; the FIN timeout has not even started to run.
C15_Witness ==
    /\ closed["A"] /\ stopped["A"]
    /\ ~should_close["A"]
    /\ acked_n["A"] = 0 /\ recv_q["A"] = <<>> /\ delivered["A"] = <<>>
    /\ net["A"] = {}
    /\ Len(send_q["A"]) = 1 /\ inflight_q["A"] = <<>>

\* C16: an application thread that is inside recv() when the stream is
\* closed eventually returns from it.
C16_RecvReturnsAfterClose ==
    \A s \in Streams : (recv_pc[s] = "get" /\ closed[s]) ~> (recv_pc[s] = "idle")

\* C17: after close() has set closed and called stoprecv(), the listener
\* eventually leaves its loop; the pass on which recvfrom() returns empty
\* changes no stream state, and a listener that has left its loop dispatches
\* nothing more (acked_n and should_close stay, recv_q gets no packet).
C17_ListenerExits ==
    /\ \A s \in Streams : (closed[s] /\ stopped[s]) ~> (listener_pc[s] = "done")
    /\ [][\A s \in Streams :
             /\ listener_stopped(s) => UNCHANGED << streamVars, net >>
             /\ listener_pc[s] = "done" =>
                   /\ listener_pc'[s] = "done"
                   /\ acked_n'[s] = acked_n[s]
                   /\ should_close'[s] = should_close[s]
                   /\ Len(recv_q'[s]) <= Len(recv_q[s])]_vars

\* C17 witness: the listener of A has left its loop after close(); before
\* that it had dispatched a FIN and a DATA packet of the remote endpoint.
C17_Witness ==
    /\ listener_pc["A"] = "done"
    /\ closed["A"] /\ stopped["A"]
    /\ should_close["A"]
    /\ recv_q["A"] # <<>>

\* C18: the sender thread has not stopped while its tracker holds a packet
\* that is not acknowledged (seq_n above acked_n).
C18_SenderDrains ==
    \A s \in Streams :
        sender_pc[s] = "dead" =>
            \A i \in DOMAIN inflight_q[s] : inflight_q[s][i].seq_n <= acked_n[s]

\* The payloads of the datagrams of a sequence of InflightPackets, joined.
RECURSIVE Payloads(_)
Payloads(q) ==
    IF q = <<>> THEN <<>>
    ELSE from_bytes(Head(q).packet).payload \o Payloads(Tail(q))

\* The packets q are what send() enqueues for data when send_next_seq_n is
\* first: ceil(Len(data) / PAYLOAD_SIZE) DATA packets with consecutive seq_n
\* from first on, payloads not empty, at most PAYLOAD_SIZE long, and joined
\* equal to data.
SegmentsOf(q, data, first) ==
    /\ Len(q) * PAYLOAD_SIZE >= Len(data)
    /\ (Len(q) - 1) * PAYLOAD_SIZE < Len(data)
    /\ \A i \in DOMAIN q :
          LET p == from_bytes(q[i].packet)
          IN  /\ q[i].seq_n = first + i - 1
              /\ p # PacketCorruptError
              /\ p.seq_n = first + i - 1
              /\ ~p.ack /\ ~p.fin
              /\ Len(p.payload) \in 1..PAYLOAD_SIZE
    /\ Payloads(q) = data

\* C19: send(data) enqueues ceil(Len(data) / PAYLOAD_SIZE) DATA packets (none
\* for empty data) with consecutive seq_n from send_next_seq_n on, whose
\* payloads are not empty, at most PAYLOAD_SIZE long and joined equal to
\* data; it advances send_next_seq_n by the number of packets.
C19_Segmentation ==
    [][\A s \in Streams : \A d \in SendData :
          /\ SegmentsOf(Segments(d, send_next_seq_n[s], ACK_TIMEOUT),
                        d, send_next_seq_n[s])
          /\ send(s, d) =>
                /\ Len(send_q'[s]) >= Len(send_q[s])
                /\ SubSeq(send_q'[s], 1, Len(send_q[s])) = send_q[s]
                /\ SegmentsOf(SubSeq(send_q'[s], Len(send_q[s]) + 1, Len(send_q'[s])),
                              d, send_next_seq_n[s])
                /\ send_next_seq_n'[s] =
                      send_next_seq_n[s] + Len(send_q'[s]) - Len(send_q[s])]_vars

\* C19 witness: a send() of more than two payloads of data has put three
\* packets behind one that still waited on send_q.
C19_Witness ==
    /\ Len(send_q["A"]) = 4
    /\ Len(app_sent["A"]) > 2 * PAYLOAD_SIZE + 1
    /\ Len(from_bytes(send_q["A"][1].packet).payload) < PAYLOAD_SIZE
    /\ Len(from_bytes(send_q["A"][4].packet).payload) = 1

\* C20: a call of send() transmits nothing and leaves acked_n,
\* recv_expect_seq_n, recv_q, closed and should_close as they are, also on a
\* closed stream whose window is full.
C20_SendOnlyQueues ==
    [][\A s \in Streams : \A d \in {BurstData, MidData, LateData} :
          \/ UNCHANGED << net, acked_n, recv_expect_seq_n, recv_q, closed,
                          should_close, inflight_q >>
          \/ ~(app_sent'[s] = app_sent[s] \o d /\ send(s, d))]_vars

\* C20 witness: send() has returned on a closed stream whose in-flight
\* window was full, and its packet waits on send_q.
C20_Witness ==
    /\ closed["A"]
    /\ Len(inflight_q["A"]) = WINDOW
    /\ app_sent["A"] = BurstData \o MidData \o LateData
    /\ send_q["A"] # <<>>
    /\ from_bytes(send_q["A"][Len(send_q["A"])].packet).payload = LateData

\* Packets of every flag combination, with payloads of bytes 0 and 255.
CodecPayloads ==
    UNION {[1..n -> {0, 255}] : n \in 0..MaxCodec}

CodecPackets ==
    {Packet(x[1], x[2], x[3], x[4], x[5]) :
        x \in (0..MaxCodec) \X (0..MaxCodec) \X BOOLEAN \X BOOLEAN \X CodecPayloads}

\* C21: decoding an encoded packet gives the packet back field by field,
\* and the encoding is header, digest, payload with the digest computed
\* over header and payload; so it is for the packets on a reassembly buffer.
C21_CodecRoundTrip ==
    /\ \A p \in CodecPackets :
          LET buf == to_bytes(p)
              header == Slice(buf, 0, HEADER_SIZE)
              digest == Slice(buf, HEADER_SIZE, HEADER_SIZE + HASH_SIZE)
              payload == Slice(buf, HEADER_SIZE + HASH_SIZE, Len(buf))
          IN  /\ from_bytes(buf) = p
              /\ Len(buf) = HEADER_SIZE + HASH_SIZE + Len(p.payload)
              /\ payload = p.payload
              /\ calcHash(header \o payload) = digest
    /\ \A s \in Streams : \A i \in DOMAIN recv_q[s] :
          from_bytes(to_bytes(recv_q[s][i])) = recv_q[s][i]

\* C21 witness: the listener of A has decoded a DATA packet of the remote
\* endpoint and an ACK|FIN, the sender of A has transmitted.
C21_Witness ==
    /\ recv_q["A"] # <<>>
    /\ to_bytes(recv_q["A"][1]) \in PeerWires
    /\ should_close["A"] /\ acked_n["A"] = 1
    /\ net["B"] # {}

\* The seq_n in the header of each datagram put on the send queue of s.
EnqueuedSeqNs(s) == [i \in 1..Len(enqueued[s]) |-> from_bytes(enqueued[s][i]).seq_n]

\* C22: when two threads have called send() at the same time and both calls
\* have returned, the enqueued packets carry distinct seq_n that fill
\* 0 .. n-1 without a gap, and send_next_seq_n is the number n of packets
\* enqueued.
C22_ConcurrentSend ==
    (\A t \in Threads : send_thread[t].pc = "done") =>
        LET ns == EnqueuedSeqNs("A")
        IN  /\ \A i, j \in DOMAIN ns : i # j => ns[i] # ns[j]
            /\ Range(ns) = 0..(Len(ns) - 1)
            /\ send_next_seq_n["A"] = Len(ns)

\* The entries of v's adjacency list that lead to u.
EdgeEntries(g, v, u) ==
    IF v \in DOMAIN g THEN SelectSeq(g[v], LAMBDA e : e.id = u) ELSE <<>>

\* C23: a call remove_edge(n1, n2) on a graph built by add_edge calls
\* leaves no edge between n1 and n2 in either direction (has_edge is false
\* and get_edge raises ValueError both ways) and every other edge as it was.
C23_RemoveEdge ==
    [][\A n1, n2 \in Nodes :
          (adj' = remove_edge(adj, n1, n2) /\ route' = NoRoute) =>
              /\ ~has_edge(adj', n1, n2)
              /\ ~has_edge(adj', n2, n1)
              /\ get_edge(adj', n1, n2) = ValueError
              /\ get_edge(adj', n2, n1) = ValueError
              /\ \A v, u \in Nodes :
                    {v, u} # {n1, n2} =>
                        EdgeEntries(adj', v, u) = EdgeEntries(adj, v, u)]_vars

SetMin(S) == CHOOSE x \in S : \A y \in S : x <= y

\* The weight of a lightest path from start to each vertex that has at most
\* k edges, by relaxing every edge k times; Inf where there is none.
RECURSIVE PathWeights(_, _, _)
PathWeights(g, start, k) ==
    IF k = 0 THEN [v \in Nodes |-> IF v = start THEN 0 ELSE Inf]
    ELSE LET D == PathWeights(g, start, k - 1)
         IN  [v \in Nodes |->
                SetMin({D[v]} \cup
                       {D[u] + g[u][i].weight :
                          << u, i >> \in {x \in (DOMAIN g) \X (1..(2 * MaxEdges)) :
                                         /\ x[2] <= Len(g[x[1]])
                                         /\ g[x[1]][x[2]].id = v
                                         /\ D[x[1]] < Inf}})]

\* Following pred from v reaches start within k steps, each step along an
\* edge of g whose weight is the difference of the two distances.
RECURSIVE PredWalk(_, _, _, _)
PredWalk(g, r, v, k) ==
    \/ v = r.start
    \/ /\ k > 0
       /\ v \in DOMAIN r.pred
       /\ r.pred[v] # None
       /\ r.pred[v] \in DOMAIN r.dist
       /\ \E i \in DOMAIN EdgeEntries(g, r.pred[v], v) :
             r.dist[r.pred[v]] + EdgeEntries(g, r.pred[v], v)[i].weight = r.dist[v]
       /\ PredWalk(g, r, r.pred[v], k - 1)

\* C24: what dijkstra(g, start) returned has dist[start] = 0 and, for every
\* vertex v that start reaches, dist[v] equal to the weight of a lightest
\* path from start to v and a walk along pred from v back to start whose
\* edges add up to dist[v].
C24_Dijkstra ==
    route # NoRoute =>
        LET shortest == PathWeights(adj, route.start, MaxNode)
        IN  /\ route.dist[route.start] = 0
            /\ \A v \in Nodes :
                  shortest[v] < Inf =>
                      /\ v \in DOMAIN route.dist
                      /\ route.dist[v] = shortest[v]
                      /\ PredWalk(adj, route, v, MaxNode)

\* C24 witness: dijkstra has run from 1 on a graph where the edge from 1 to 3
\* weighs 3 and the path over 2 weighs 2, and has returned the path over 2.
C24_Witness ==
    /\ route # NoRoute
    /\ route.start = 1
    /\ get_edge(adj, 1, 3) = Edge(3, 1, 3)
    /\ route.dist[3] = 2
    /\ route.pred[3] = 2
    /\ route.pred[2] = 1

\* The seq_n of the entries of a tracker.
SeqNs(q) == {q[i].seq_n : i \in DOMAIN q}

\* A pass of the sender thread of s from the scan to the loop condition.
ScanStep(s) == sender_pc[s] = "scan" /\ sender_pc'[s] # "scan"

\* C25: when the scan, trim and resend of an iteration of the sender thread
\* are over, the tracker has no entry with seq_n <= acked_n, also when only
\* its first entry is acknowledged, and still has every entry with
\* seq_n > acked_n.
C25_GarbageCollection ==
    [][\A s \in Streams :
          ScanStep(s) =>
              /\ \A n \in SeqNs(inflight_q'[s]) : n > acked_n[s]
              /\ \A n \in SeqNs(inflight_q[s]) :
                    n > acked_n[s] => n \in SeqNs(inflight_q'[s])]_vars

\* The entries of a tracker are in strictly ascending order of seq_n.
Ascending(q) == \A i, j \in DOMAIN q : i < j => q[i].seq_n < q[j].seq_n

\* The earliest entry of q with seq_n > acked is there and has timed out.
HeadTimedOut(q, acked) ==
    \E i \in DOMAIN q :
        /\ q[i].seq_n > acked
        /\ \A j \in 1..(i - 1) : q[j].seq_n <= acked
        /\ q[i].elapsed > q[i].timeout_s

\* C26: in an iteration of the sender thread in which the earliest entry
\* above the watermark has timed out, every entry of the tracker is
\* transmitted once, in ascending order of seq_n, and has its start_time
\* refreshed; in any other iteration nothing is transmitted and no
\* start_time changes.
C26_GoBackN ==
    [][\A s \in Streams :
          ScanStep(s) =>
              IF HeadTimedOut(inflight_q[s], acked_n[s])
              THEN /\ net'[Peer(s)] = sendtoAll(net[Peer(s)], Packets(inflight_q'[s]))
                   /\ Ascending(inflight_q'[s])
                   /\ \A i \in DOMAIN inflight_q'[s] : inflight_q'[s][i].elapsed = 0
                   /\ inflight_q'[s] # <<>>
              ELSE /\ net' = net
                   /\ \A i \in DOMAIN inflight_q'[s] :
                         \E j \in DOMAIN inflight_q[s] :
                             inflight_q'[s][i] = inflight_q[s][j]]_vars

\* C26 witness: the sender thread of A is about to scan a tracker of two
\* entries of which the one above the watermark has timed out, and every
\* datagram towards B has been lost.
C26_Witness ==
    /\ sender_pc["A"] = "scan"
    /\ Len(inflight_q["A"]) = 2
    /\ HeadTimedOut(inflight_q["A"], acked_n["A"])
    /\ net["B"] = {}

\* The datagram w is in the tracker of A, no copy of it is on its way to B
\* and B has not received one, so that no ACK for it exists.
LostInFlight(w) ==
    /\ ~closed["A"]
    /\ w \in Range(Packets(inflight_q["A"]))
    /\ w \notin net["B"]
    /\ recv_q["B"] = <<>>
    /\ delivered["B"] = <<>>

\* C27: while the stream is open, a packet in the tracker that stays
\* unacknowledged is transmitted again after its timeout, also the packet
\* with seq_n 0 and a packet that is the only entry of the tracker.
C27_TimeoutLiveness ==
    \A w \in LiveWires : LostInFlight(w) ~> (w \in net["B"])

\* B's recv() has returned every packet A has enqueued, and there is one.
AllDelivered ==
    /\ send_next_seq_n["A"] > 0
    /\ Len(delivered["B"]) = send_next_seq_n["A"]

\* C28: once B's recv() has returned every packet, also when ACKs have been
\* lost on the way, the tracker of A becomes empty and stays empty, so that
\* nothing is retransmitted any more.
C28_EventuallyAcked ==
    AllDelivered ~> [](inflight_q["A"] = <<>>)

\* A pass of the inner loop of the sender thread of s that transmits a
\* packet for the first time and appends it to the tracker.
AdmitStep(s) == Len(inflight_q'[s]) = Len(inflight_q[s]) + 1

\* C29: the packet the sender thread transmits for the first time has a
\* seq_n above that of every packet transmitted before it; the trim always
\* keeps the last entry of the tracker, so these are the entries of the
\* tracker.
C29_FirstTransmissionOrder ==
    [][\A s \in Streams :
          AdmitStep(s) =>
              \A n \in SeqNs(inflight_q[s]) :
                  n < inflight_q'[s][Len(inflight_q'[s])].seq_n]_vars

\* C30: in every state the tracker is in strictly ascending order of seq_n,
\* without duplicates, so that the first entry above the watermark the scan
\* finds is the oldest one that is not acknowledged and every entry before
\* it is acknowledged.
C30_TrackerOrdered ==
    \A s \in Streams :
        LET q == inflight_q[s]
            first == LeadingAcked(q, acked_n[s]) + 1
        IN  /\ Ascending(q)
            /\ \A i \in DOMAIN q :
                  /\ i < first => q[i].seq_n <= acked_n[s]
                  /\ i >= first => q[i].seq_n >= q[first].seq_n /\ q[i].seq_n > acked_n[s]

\* C31: the packets the sender thread of A has transmitted at least once
\* are at most WINDOW more than the packets B's recv() has returned, and
\* no packet in the tracker of A has a seq_n of B's recv_expect_seq_n +
\* WINDOW or more.
C31_Backpressure ==
    /\ Transmitted("A") - Len(delivered["B"]) <= WINDOW
    /\ \A n \in SeqNs(inflight_q["A"]) : n < recv_expect_seq_n["B"] + WINDOW

\* The ACK for the packet with seq_n n: ack=1, fin=0, no payload.
AckFor(n) == to_bytes(Packet(n, 0, TRUE, FALSE, <<>>))

\* recv() on s returns a packet in this step.
RecvReturns(s) == Len(delivered'[s]) = Len(delivered[s]) + 1

C33_OutOfOrderRetention ==
    [][\A s \in Streams :
          \/ recv_q'[s] = recv_q[s]
          \/ /\ \A i \in DOMAIN recv_q[s] :
                   LET p == recv_q[s][i]
                   IN  /\ p.seq_n > recv_expect_seq_n[s] =>
                              p \in Range(recv_q'[s])
                       /\ p.seq_n = recv_expect_seq_n[s] =>
                              \/ p \in Range(recv_q'[s])
                              \/ delivered'[s] = Append(delivered[s], p)
             /\ RecvReturns(s) =>
                   delivered'[s][Len(delivered'[s])].seq_n = recv_expect_seq_n[s]]_vars

\* C33 witness: the listener of B has parked packet 1, packet 0 has been
\* lost on the way, and recv() on B runs with recv_expect_seq_n 0.
C33_Witness ==
    /\ recv_q["B"] # <<>>
    /\ Head(recv_q["B"]).seq_n = 1
    /\ recv_expect_seq_n["B"] = 0
    /\ recv_pc["B"] = "get"
    /\ net["B"] = {}

\* A packet with neither flag set.
IsData(p) == ~p.ack /\ ~p.fin

\* C34: when the listener of A receives a valid packet with ack=1 it changes
\* acked_n, and should_close when fin=1, and nothing else, the reassembly
\* buffer least of all; when it receives one with ack=0 and fin=0 it puts it
\* on the reassembly buffer and changes none of acked_n, should_close and
\* recv_expect_seq_n; the reassembly buffer holds DATA packets only.
C34_ListenerDispatch ==
    [][/\ \A i \in DOMAIN recv_q'["A"] : IsData(recv_q'["A"][i])
       /\ \/ UNCHANGED << acked_n, should_close, recv_q >>
          \/ \A w \in PeerWires :
                LET p == from_bytes(w)
                IN  \/ ~listener_recv("A", w, w, TRUE)
                    \/ IF p.ack
                       THEN /\ should_close'["A"] = (should_close["A"] \/ p.fin)
                            /\ UNCHANGED << send_next_seq_n, send_q, recv_q,
                                            recv_expect_seq_n, closed, net >>
                       ELSE IF IsData(p)
                       THEN /\ p \in Range(recv_q'["A"])
                            /\ Len(recv_q'["A"]) = Len(recv_q["A"]) + 1
                            /\ UNCHANGED << acked_n, should_close,
                                            recv_expect_seq_n >>
                       ELSE TRUE]_vars

\* C34 witness: the listener of A has parked the DATA packets 0 and 1 and
\* has received an ACK for 1 and a datagram with the FIN flag.
C34_Witness ==
    /\ Len(recv_q["A"]) = 2
    /\ acked_n["A"] = 1
    /\ should_close["A"]
    /\ ~closed["A"]

\* C35: should_close of A becomes true only in a pass of the listener that
\* has received a valid packet with the FIN flag, a FIN or a FIN-ACK; no
\* plain ACK, DATA packet, corrupt datagram, recv(), close() or pass of the
\* sender thread sets it; once true it stays true.
C35_ShouldClose ==
    [][\/ should_close' = should_close
       \/ /\ ~should_close["A"]
          /\ should_close'["A"]
          /\ \E w \in PeerWires :
                /\ from_bytes(w).fin
                /\ listener_recv("A", w, w, TRUE)]_vars

\* C35 witness: the listener of A has met a corrupt datagram, has received
\* a plain ACK, a DATA packet and a packet with the FIN flag, which raised
\* should_close, and the application has then called close().
C35_Witness ==
    /\ should_close["A"]
    /\ corrupt_seen
    /\ closed["A"]
    /\ acked_n["A"] = 1
    /\ recv_q["A"] # <<>>

\* C36: to_bytes emits the flags byte 8 * ack + 128 * fin; from_bytes reads
\* ack from bit 3 and fin from bit 7 of every flags byte 0..255 and gives
\* the same flags as for the byte with all other bits cleared; so the
\* packets the listener has parked, whatever their other bits were, have
\* neither flag.
C36_FlagByte ==
    /\ \A p \in CodecPackets :
          to_bytes(p)[HEADER_SIZE] = 8 * BoolInt(p.ack) + 128 * BoolInt(p.fin)
    /\ \A _flags \in 0..255 :
          LET p == from_bytes(RawWire(0, 0, _flags, <<>>))
              q == from_bytes(RawWire(0, 0, FlagBits(_flags), <<>>))
          IN  /\ p # PacketCorruptError
              /\ p.ack = (Bit(_flags, 3) = 1)
              /\ p.fin = (Bit(_flags, 7) = 1)
              /\ p.ack = q.ack /\ p.fin = q.fin
    /\ \A i \in DOMAIN recv_q["A"] : IsData(recv_q["A"][i])

\* C36 witness: the listener of A has parked a packet whose flags byte had
\* bits other than 3 and 7, and has read an ACK for 1 and a FIN flag from
\* other flags bytes.
C36_Witness ==
    /\ \E i \in DOMAIN recv_q["A"] : recv_q["A"][i].payload = << 1 >>
    /\ acked_n["A"] = 1
    /\ should_close["A"]

\* close() on s sends its FIN in this step.
CloseSendsFin(s) == ~closed[s] /\ closed'[s] /\ ~should_close[s]

\* C37: with one thread of the application, after every step the packets
\* ever put on the send queue of A carry the seq_n 0, 1, ...,
\* send_next_seq_n - 1, each once; send_next_seq_n does not decrease; and
\* the FIN of close(), with the packet that carries it, gets the value
\* after the seq_n of the last DATA packet.
C37_OneCounter ==
    [][\/ UNCHANGED << enqueued, send_next_seq_n >>
       \/ /\ EnqueuedSeqNs("A")' = [i \in 1..send_next_seq_n'["A"] |-> i - 1]
          /\ send_next_seq_n'["A"] >= send_next_seq_n["A"]
          /\ CloseSendsFin("A") =>
                LET carrier == from_bytes(enqueued'["A"][Len(enqueued'["A"])])
                    fin_pack == from_bytes(carrier.payload)
                IN  /\ Len(enqueued'["A"]) = Len(enqueued["A"]) + 1
                    /\ carrier.seq_n = send_next_seq_n["A"]
                    /\ fin_pack.fin /\ ~fin_pack.ack
                    /\ fin_pack.seq_n = send_next_seq_n["A"]
                    /\ send_next_seq_n'["A"] = send_next_seq_n["A"] + 1]_vars

\* C37 witness: A has sent the burst, closed, and sent once more: the FIN
\* has the seq_n after the burst and the late packet the one after the FIN.
C37_Witness ==
    /\ closed["A"]
    /\ app_sent["A"] = BurstData \o LateData
    /\ send_next_seq_n["A"] = MaxBurst + 2
    /\ from_bytes(from_bytes(enqueued["A"][MaxBurst + 1]).payload).fin
    /\ from_bytes(enqueued["A"][MaxBurst + 2]).seq_n = MaxBurst + 1

\* The seq_n of the packets recv() on s has returned.
DeliveredSeqNs(s) == {delivered[s][i].seq_n : i \in DOMAIN delivered[s]}

\* C38: an entry leaves the in-flight tracker of A only if B's recv() has
\* returned the packet with its seq_n, also when the ACK that A's listener
\* received is the one B's close() emitted.
C38_NoRetirementWithoutDelivery ==
    [][\/ UNCHANGED inflight_q
       \/ \A n \in SeqNs(inflight_q["A"]) \ SeqNs(inflight_q'["A"]) :
              n \in DeliveredSeqNs("B")]_vars

\* C39: with two threads inside recv() on B and copies of the expected
\* packet in recv_q, each seq_n is returned by at most one call, and
\* recv_expect_seq_n has advanced by exactly 1 for each returned packet.
C39_ConcurrentRecv ==
    /\ \A i, j \in DOMAIN delivered["B"] :
          i # j => delivered["B"][i].seq_n # delivered["B"][j].seq_n
    /\ recv_expect_seq_n["B"] = Len(delivered["B"])

=============================================================================
